---------------------------- MODULE Spec2Model ----------------------------
(***************************************************************************)
(* A model of the video generation repository:                             *)
(*   - VideoProcessor   (overlay_content_avatar.py), the frame compositor  *)
(*   - VideoCoordinator (video_coordinator.py)                             *)
(*   - TextVideoGenerator (generate_text_video.py)                         *)
(*   - ImageVideoGenerator (generate_image_video.py)                       *)
(* Each component has its own specification; the variables of the other    *)
(* components stay at their initial values.                                *)
(***************************************************************************)
EXTENDS Integers, Sequences, FiniteSets, TLC

\* ------------------------------------------------------------------ bounds
\* Largest frame count of a source video.
MaxFrames == 4
\* Largest frame rate of a source video (only its ratio matters).
MaxFps == 2

Min(a, b) == IF a <= b THEN a ELSE b
Max(a, b) == IF a >= b THEN a ELSE b

\* ============================================================ VideoProcessor
VARIABLES
    vp_pc,          \* position in __init__ / combine_videos
    fg_src,         \* the file at foreground_path: [readable, frames, fps]
    bg_src,         \* the file at background_path
    fg_cap,         \* self.fg_cap: "none" | "open" | "unopened" | "released"
    bg_cap,         \* self.bg_cap
    out,            \* self.out, the cv2.VideoWriter
    fg_frames,      \* self.fg_frames
    bg_frames,      \* self.bg_frames
    fps,            \* self.fps
    frame_count,    \* local frame_count of combine_videos
    write_calls,    \* number of self.out.write calls that returned
    temp_exists,    \* os.path.exists("temp_output.mp4")
    temp_frames,    \* frames stored in temp_output.mp4
    positions,      \* the (fg_frame_pos, bg_frame_pos) pairs set so far
    read_fail_at,   \* output index at which a read returned no data, or -1
    vp_failures,    \* the failures that happened during the run
    av_open,        \* moviepy clips opened by add_audio and not closed
    audio_attached, \* add_audio was entered
    output,         \* the file at output_path: "none" | "partial" | "complete"
    vp_result       \* how the run ended for the caller: "none" | "raised" | "returned"

vpVars == <<vp_pc, fg_src, bg_src, fg_cap, bg_cap, out, fg_frames, bg_frames, fps,
            frame_count, write_calls, temp_exists, temp_frames, positions,
            read_fail_at, vp_failures, av_open, audio_attached, output, vp_result>>

\* ========================================================= VideoCoordinator,
\* ==================================== TextVideoGenerator, ImageVideoGenerator
VARIABLES
    co_pc,            \* position in VideoCoordinator.__init__ / create_video
    args,             \* the constructor's arguments and the image files on disk
    width,            \* self.width
    height,           \* self.height
    duration,         \* self.duration
    slide_content,    \* self.slide_content (None as <<>>, a list l as <<l>>)
    image_content,    \* self.image_content (likewise)
    co_locals,        \* which of background, text_video, final_video are bound
    co_open,          \* clips the call opened and has not closed, as <<name, 0>>
                      \* or <<"image", index of the item>>
    temp_text_path,   \* the local temp_text_path is set
    temp_text_exists, \* the temporary text video file exists on disk
    font_size,        \* TextVideoGenerator.font_size
    content_zone,     \* TextVideoGenerator.content_zone: [top, bottom]
    tg_slide,         \* index of the slide the outer loop is at
    tg_line,          \* index of the line the inner loop is at
    start_y10,        \* start_y of the current slide, in tenths of a pixel
    current_y10,      \* current_y, in tenths of a pixel
    text_layers,      \* the content text clips appended to all_clips
    tg_open,          \* clips TextVideoGenerator.create_video opened and not closed
    tg_encoded,       \* TextVideoGenerator's write_videofile was invoked
    image_clips,      \* ImageVideoGenerator.image_clips
    co_encoded,       \* the coordinator's write_videofile was invoked
    co_error,         \* the exception create_video is propagating, or "none"
    co_result         \* "none" | "returned" | "raised"

coVars == <<co_pc, args, width, height, duration, slide_content, image_content,
            co_locals, co_open, temp_text_path, temp_text_exists, font_size,
            content_zone, tg_slide, tg_line, start_y10, current_y10, text_layers,
            tg_open, tg_encoded, image_clips, co_encoded, co_error, co_result>>

\* ========================================== TextVideoGenerator.wrap_text alone
VARIABLES
    wt_pc,            \* "idle" | "new" | "wrapped"
    wt_text,          \* the argument of wrap_text
    wt_lines          \* the lines of the string wrap_text returned

wtVars == <<wt_pc, wt_text, wt_lines>>

\* ============================================ ImageVideoGenerator, one image
VARIABLES
    im_pc,            \* "idle" | "new" | "constructed" | "resized" | "skipped" | "placed"
    im_args,          \* <<width, height>> given to ImageVideoGenerator.__init__
    im_source,        \* the file at image_path: None, or its <<width, height>>
    im_width,         \* self.width
    im_height,        \* self.height
    im_full_height,   \* self.full_height
    im_y_offset,      \* self.y_offset
    clip_size,        \* <<clip.w, clip.h>> of the ImageClip
    clip_pos          \* <<x_position, y_position>> the clip was placed at

imVars == <<im_pc, im_args, im_source, im_width, im_height, im_full_height,
            im_y_offset, clip_size, clip_pos>>

vars == <<vpVars, coVars, wtVars, imVars>>

wtIdle ==
    /\ wt_pc = "idle"
    /\ wt_text = <<>>
    /\ wt_lines = <<>>

imIdle ==
    /\ im_pc = "idle"
    /\ im_args = <<0, 0>>
    /\ im_source = <<>>
    /\ im_width = 0
    /\ im_height = 0
    /\ im_full_height = 0
    /\ im_y_offset = 0
    /\ clip_size = <<0, 0>>
    /\ clip_pos = <<0, 0>>

\* Optional values: None is <<>>, a value v is <<v>>.
None == <<>>
Some(v) == <<v>>

coIdle ==
    /\ co_pc = "idle"
    /\ args = None
    /\ width = 0
    /\ height = 0
    /\ duration = 0
    /\ slide_content = None
    /\ image_content = None
    /\ co_locals = {}
    /\ co_open = {}
    /\ temp_text_path = FALSE
    /\ temp_text_exists = FALSE
    /\ font_size = 0
    /\ content_zone = [top |-> 0, bottom |-> 0]
    /\ tg_slide = 0
    /\ tg_line = 0
    /\ start_y10 = 0
    /\ current_y10 = 0
    /\ text_layers = <<>>
    /\ tg_open = {}
    /\ tg_encoded = FALSE
    /\ image_clips = <<>>
    /\ co_encoded = FALSE
    /\ co_error = "none"
    /\ co_result = "none"

\* cv2.VideoCapture on a path that cannot be opened reports 0 for every property.
Unreadable == [readable |-> FALSE, frames |-> 0, fps |-> 0]
Sources ==
    {Unreadable} \cup
    [readable : {TRUE}, frames : 0..MaxFrames, fps : 1..MaxFps]

vpInit ==
    /\ vp_pc = "new"
    /\ fg_src \in Sources
    /\ bg_src \in Sources
    /\ fg_cap = "none"
    /\ bg_cap = "none"
    /\ out = "none"
    /\ fg_frames = 0
    /\ bg_frames = 0
    /\ fps = 0
    /\ frame_count = 0
    /\ write_calls = 0
    /\ temp_exists = FALSE
    /\ temp_frames = 0
    /\ positions = <<>>
    /\ read_fail_at = -1
    /\ vp_failures = {}
    /\ av_open = {}
    /\ audio_attached = FALSE
    /\ output = "none"
    /\ vp_result = "none"

vpIdle ==
    /\ vp_pc = "idle"
    /\ fg_src = Unreadable
    /\ bg_src = Unreadable
    /\ fg_cap = "none"
    /\ bg_cap = "none"
    /\ out = "none"
    /\ fg_frames = 0
    /\ bg_frames = 0
    /\ fps = 0
    /\ frame_count = 0
    /\ write_calls = 0
    /\ temp_exists = FALSE
    /\ temp_frames = 0
    /\ positions = <<>>
    /\ read_fail_at = -1
    /\ vp_failures = {}
    /\ av_open = {}
    /\ audio_attached = FALSE
    /\ output = "none"
    /\ vp_result = "none"

\* cv2.VideoCapture(path): the capture object exists either way.
OpenCapture(src) == IF src.readable THEN "open" ELSE "unopened"

\* self.fps: the background's rate if its duration is longer (frames / fps compared
\* by cross-multiplication, both rates positive), otherwise the foreground's.
SelectFps(ff, ffps, bf, bfps) == IF bf * ffps > ff * bfps THEN bfps ELSE ffps

\* VideoProcessor.__init__. A source that cannot be opened has fps 0.0, so the
\* duration division raises ZeroDivisionError before the writer is created.
Construct ==
    /\ vp_pc = "new"
    /\ UNCHANGED <<coVars, wtVars, imVars>>
    /\ fg_cap' = OpenCapture(fg_src)
    /\ bg_cap' = OpenCapture(bg_src)
    /\ fg_frames' = fg_src.frames
    /\ bg_frames' = bg_src.frames
    /\ IF fg_src.fps = 0 \/ bg_src.fps = 0
       THEN /\ vp_pc' = "ctor_failed"
            /\ vp_result' = "raised"
            /\ vp_failures' = (IF fg_src.readable THEN {} ELSE {"fg_open"})
                              \cup (IF bg_src.readable THEN {} ELSE {"bg_open"})
            /\ UNCHANGED <<fps, out, temp_exists>>
       ELSE /\ fps' = SelectFps(fg_src.frames, fg_src.fps, bg_src.frames, bg_src.fps)
            /\ \E opened \in BOOLEAN :
                 IF opened
                 THEN /\ out' = "open"
                      /\ temp_exists' = TRUE
                      /\ vp_failures' = {}
                 ELSE /\ out' = "unopened"
                      /\ temp_exists' \in BOOLEAN
                      /\ vp_failures' = {"writer_open"}
            /\ vp_pc' = "loop"
            /\ UNCHANGED vp_result
    /\ UNCHANGED <<fg_src, bg_src, frame_count, write_calls, temp_frames, positions,
                   read_fail_at, av_open, audio_attached, output>>

\* total_frames = min(self.fg_frames, self.bg_frames)
\* total_frames = max(self.fg_frames, self.bg_frames): run to the longer source.
TotalFramesLonger == Max(fg_frames, bg_frames)
TotalFrames == Min(fg_frames, bg_frames)

FramePosNextFrame(i, total, frames) == {((i + 1) * frames) \div total}

\* int((frame_count / total_frames) * frames) in double arithmetic. When the exact
\* quotient i * frames / total is not an integer the result is its floor. When it is
\* an integer x >= 1 the rounded product may fall just below x, and int() then gives
\* x - 1 (int((29 / 100) * 100) is 28): both outcomes are possible.
FramePos(i, total, frames) ==
    LET x == (i * frames) \div total
    IN  IF i > 0 /\ (i * frames) % total = 0 THEN {x - 1, x} ELSE {x}

\* Line 104 negated: both reads returned a frame.
ReadsOkFgOnly(fg_ret, bg_ret) == fg_ret
ReadsOk(fg_ret, bg_ret) == fg_ret /\ bg_ret

\* self.out.write(frame): a writer that failed to open drops the frame silently.
WriteFrame(writer, stored) == IF writer = "open" THEN stored + 1 ELSE stored

\* One pass through the while loop of combine_videos (lines 90-113).
LoopIteration ==
    /\ vp_pc = "loop"
    /\ UNCHANGED <<coVars, wtVars, imVars>>
    /\ frame_count < TotalFrames
    /\ \E fp \in FramePos(frame_count, TotalFrames, fg_frames),
          bp \in FramePos(frame_count, TotalFrames, bg_frames),
          fg_ret \in BOOLEAN, bg_ret \in BOOLEAN, raises \in BOOLEAN :
         /\ positions' = Append(positions, <<fp, bp>>)
         /\ read_fail_at' = IF fg_ret /\ bg_ret THEN read_fail_at ELSE frame_count
         /\ IF ~ReadsOk(fg_ret, bg_ret)
            THEN /\ vp_pc' = "release"
                 /\ UNCHANGED <<frame_count, write_calls, temp_frames, vp_failures>>
            ELSE /\ frame_count' = frame_count + 1
                 /\ IF raises
                    THEN /\ vp_pc' = "except"
                         /\ vp_failures' = vp_failures \cup {"frame_step"}
                         /\ UNCHANGED <<write_calls, temp_frames>>
                    ELSE /\ vp_pc' = "loop"
                         /\ write_calls' = write_calls + 1
                         /\ temp_frames' = WriteFrame(out, temp_frames)
                         /\ UNCHANGED vp_failures
    /\ UNCHANGED <<fg_src, bg_src, fg_cap, bg_cap, out, fg_frames, bg_frames, fps,
                   temp_exists, av_open, audio_attached, output, vp_result>>

\* The loop condition fails: frame_count reached total_frames.
LoopExit ==
    /\ vp_pc = "loop"
    /\ UNCHANGED <<coVars, wtVars, imVars>>
    /\ frame_count >= TotalFrames
    /\ vp_pc' = "release"
    /\ UNCHANGED <<fg_src, bg_src, fg_cap, bg_cap, out, fg_frames, bg_frames, fps,
                   frame_count, write_calls, temp_exists, temp_frames, positions,
                   read_fail_at, vp_failures, av_open, audio_attached, output,
                   vp_result>>

\* Lines 116-118: release the two captures and the writer.
ReleaseHandles ==
    /\ vp_pc = "release"
    /\ UNCHANGED <<coVars, wtVars, imVars>>
    /\ fg_cap' = "released"
    /\ bg_cap' = "released"
    /\ out' = "released"
    /\ vp_pc' = "add_audio"
    /\ UNCHANGED <<fg_src, bg_src, fg_frames, bg_frames, fps, frame_count,
                   write_calls, temp_exists, temp_frames, positions, read_fail_at,
                   vp_failures, av_open, audio_attached, output, vp_result>>

\* if os.path.exists("temp_output.mp4"): os.remove("temp_output.mp4"); removing
\* an existing file succeeds (POSIX: also while a reader still has it open).
RemoveTempKept(exists) == exists
RemoveTemp(exists) == FALSE

\* The outcomes of add_audio's try block: the step that raised, or "ok".
\* VideoFileClip("temp_output.mp4") cannot succeed on a missing file.
AudioOutcomes(exists) ==
    IF exists THEN {"video_load", "audio_load", "encode", "ok"} ELSE {"video_load"}

\* add_audio (lines 127-159): every exception is printed and swallowed, the
\* finally block removes the temporary file, and combine_videos then returns.
AddAudio ==
    /\ vp_pc = "add_audio"
    /\ UNCHANGED <<coVars, wtVars, imVars>>
    /\ audio_attached' = TRUE
    /\ \E r \in AudioOutcomes(temp_exists) :
         /\ av_open' = CASE r = "video_load" -> {}
                         [] r = "audio_load" -> {"video"}
                         [] r = "encode"     -> {"video", "audio", "final_video"}
                         [] OTHER            -> {}
         /\ output' = CASE r = "encode" -> "partial"
                        [] r = "ok"     -> "complete"
                        [] OTHER        -> output
         /\ vp_failures' = IF r = "ok" THEN vp_failures ELSE vp_failures \cup {r}
    /\ temp_exists' = RemoveTemp(temp_exists)
    /\ vp_pc' = "done"
    /\ vp_result' = "returned"
    /\ UNCHANGED <<fg_src, bg_src, fg_cap, bg_cap, out, fg_frames, bg_frames, fps,
                   frame_count, write_calls, temp_frames, positions, read_fail_at>>

\* except Exception (lines 123-125): print, then cleanup() (lines 161-172);
\* combine_videos returns normally.
ExceptCleanup ==
    /\ vp_pc = "except"
    /\ UNCHANGED <<coVars, wtVars, imVars>>
    /\ fg_cap' = "released"
    /\ bg_cap' = "released"
    /\ out' = "released"
    /\ temp_exists' = RemoveTemp(temp_exists)
    /\ vp_pc' = "done"
    /\ vp_result' = "returned"
    /\ UNCHANGED <<fg_src, bg_src, fg_frames, bg_frames, fps, frame_count,
                   write_calls, temp_frames, positions, read_fail_at, vp_failures,
                   av_open, audio_attached, output>>

vpNext ==
    \/ Construct
    \/ LoopIteration
    \/ LoopExit
    \/ ReleaseHandles
    \/ AddAudio
    \/ ExceptCleanup


\* =============================================================== text wrapping
\* Text is a sequence of one-character strings; Bullet stands for U+2022.
Bullet == "*"

IsSpace(c) == c = " "
IsBlank(s) == \A j \in 1..Len(s) : IsSpace(s[j])

RECURSIVE LStrip(_)
LStrip(s) == IF s # <<>> /\ IsSpace(s[1]) THEN LStrip(Tail(s)) ELSE s
RECURSIVE RStrip(_)
RStrip(s) ==
    IF s # <<>> /\ IsSpace(s[Len(s)]) THEN RStrip(SubSeq(s, 1, Len(s) - 1)) ELSE s
\* str.strip()
Strip(s) == RStrip(LStrip(s))

\* Length of the leading run of s that is all whitespace or all non-whitespace.
RunLength(s) ==
    CHOOSE k \in 1..Len(s) :
        /\ \A j \in 1..k : IsSpace(s[j]) = IsSpace(s[1])
        /\ k = Len(s) \/ IsSpace(s[k + 1]) # IsSpace(s[1])

\* TextWrapper._split: words and the whitespace runs between them (texts hold
\* no hyphens, tabs or newlines).
RECURSIVE SplitChunks(_)
SplitChunks(s) ==
    IF s = <<>> THEN <<>>
    ELSE LET k == RunLength(s)
         IN  <<SubSeq(s, 1, k)>> \o SplitChunks(SubSeq(s, k + 1, Len(s)))

\* How many leading chunks fit into `room` characters.
RECURSIVE TakeFit(_, _)
TakeFit(chunks, room) ==
    IF chunks # <<>> /\ Len(chunks[1]) <= room
    THEN 1 + TakeFit(Tail(chunks), room - Len(chunks[1]))
    ELSE 0

RECURSIVE Flatten(_)
Flatten(chunks) == IF chunks = <<>> THEN <<>> ELSE chunks[1] \o Flatten(Tail(chunks))

\* TextWrapper._wrap_chunks with the defaults break_long_words = True and
\* drop_whitespace = True and an empty initial_indent; one recursion per line.
RECURSIVE WrapChunks(_, _, _, _)
WrapChunks(chunks, lines, wrap_width, subsequent_indent) ==
    IF chunks = <<>> THEN lines
    ELSE
      LET indent == IF lines # <<>> THEN subsequent_indent ELSE <<>>
          w == wrap_width - Len(indent)
          c1 == IF IsBlank(chunks[1]) /\ lines # <<>> THEN Tail(chunks) ELSE chunks
          n == TakeFit(c1, w)
          cur == SubSeq(c1, 1, n)
          rest == SubSeq(c1, n + 1, Len(c1))
          cur_len == Len(Flatten(cur))
          long == rest # <<>> /\ Len(rest[1]) > w
          space_left == IF w < 1 THEN 1 ELSE w - cur_len
          cur2 == IF long THEN Append(cur, SubSeq(rest[1], 1, space_left)) ELSE cur
          rest2 == IF long
                   THEN <<SubSeq(rest[1], space_left + 1, Len(rest[1]))>> \o Tail(rest)
                   ELSE rest
          cur3 == IF cur2 # <<>> /\ IsBlank(cur2[Len(cur2)])
                  THEN SubSeq(cur2, 1, Len(cur2) - 1) ELSE cur2
          lines2 == IF cur3 # <<>> THEN Append(lines, indent \o Flatten(cur3)) ELSE lines
      IN  WrapChunks(rest2, lines2, wrap_width, subsequent_indent)

\* textwrap.fill(text, width, subsequent_indent), as the lines its result holds:
\* the empty string is one empty line.
TextwrapFill(text, wrap_width, subsequent_indent) ==
    LET lines == WrapChunks(SplitChunks(text), <<>>, wrap_width, subsequent_indent)
    IN  IF lines = <<>> THEN << <<>> >> ELSE lines

\* self.char_limit
char_limit == 20

\* TextVideoGenerator.wrap_text followed by .split("\n").
WrapText(text) ==
    IF text # <<>> /\ text[1] = Bullet
    THEN LET wrapped == TextwrapFill(Strip(SubSeq(text, 3, Len(text))), char_limit,
                                     <<" ", " ", " ">>)
         IN  <<(<<Bullet, " ">> \o wrapped[1])>> \o Tail(wrapped)
    ELSE TextwrapFill(text, char_limit + 5, <<>>)

\* ========================================================= manifests (inputs)
\* Largest number of lines of a slide in the layout manifests.
MaxLines == 2
\* Largest number of slides in the layout manifests.
MaxLayoutSlides == 1
\* Largest number of slides in the timing manifests.
MaxSlides == 2
\* Largest number of image items in the timing manifests.
MaxImages == 2

SeqUpTo(S, n) == UNION {[1..k -> S] : k \in 0..n}

\* "risk factors": one line.
TextShort == <<"r", "i", "s", "k", " ", "f", "a", "c", "t", "o", "r", "s">>
\* "secondary evaluation methods": wraps into two lines.
TextLong == <<"s", "e", "c", "o", "n", "d", "a", "r", "y", " ", "e", "v", "a", "l", "u", "a", "t", "i", "o", "n", " ", "m", "e", "t", "h", "o", "d", "s">>
\* A bullet string whose body wraps into two lines.
TextBullet == <<"*", " ", "p", "r", "i", "m", "a", "r", "y", " ", "t", "e", "s", "t", "i", "n", "g", " ", "m", "e", "t", "h", "o", "d", "s">>
Texts == {TextShort, TextLong, TextBullet}

\* <<width, height>>: a small frame whose content zone [144, 180] holds two
\* lines, and the default frame.
Geometries == {<<200, 360>>, <<1080, 1920>>}
DefaultGeometry == <<1080, 1920>>

\* The image files that exist on disk.
FilesOnDisk == {"a.png", "b.png"}

\* Slides with well-formed timing and every combination of up to MaxLines texts.
LayoutSlides ==
    {[start_times |-> [i \in 1..Len(l) |-> 0], end_time |-> 1, lines |-> l] :
        l \in SeqUpTo(Texts, MaxLines)}

LayoutManifests ==
    [width_height : Geometries, duration : {None},
     slide_content : {Some(l) : l \in SeqUpTo(LayoutSlides, MaxLayoutSlides)},
     image_content : {Some(<<>>)}]

\* Slides that differ in their timing: well formed, an end before the start, fewer
\* and more start times than lines.
TimingSlides ==
    {[start_times |-> <<0>>,    end_time |-> 1, lines |-> <<TextShort>>],
     [start_times |-> <<0, 2>>, end_time |-> 3, lines |-> <<TextShort, TextShort>>],
     [start_times |-> <<2>>,    end_time |-> 1, lines |-> <<TextShort>>],
     [start_times |-> <<0>>,    end_time |-> 3, lines |-> <<TextShort, TextShort>>],
     [start_times |-> <<0, 2>>, end_time |-> 3, lines |-> <<TextShort>>]}

\* Image items: two that load, one whose file is missing, one that ends before
\* it starts.
ImageItems ==
    {[start_time |-> 0, end_time |-> 1, image_path |-> "a.png"],
     [start_time |-> 2, end_time |-> 3, image_path |-> "b.png"],
     [start_time |-> 0, end_time |-> 3, image_path |-> "missing.png"],
     [start_time |-> 2, end_time |-> 1, image_path |-> "a.png"]}

TimingManifests ==
    [width_height : {DefaultGeometry}, duration : {None, Some(0), Some(2)},
     slide_content : {None} \cup {Some(l) : l \in SeqUpTo(TimingSlides, MaxSlides)},
     image_content : {None} \cup {Some(l) : l \in SeqUpTo(ImageItems, MaxImages)}]

\* ============================================================ wrap_text alone
\* Longest text over WrapAlphabet given to wrap_text.
MaxTextLen == 4
\* Largest number of words of a text built from words.
MaxWords == 3

WrapAlphabet == {"a", " ", Bullet}
\* Every text of up to MaxTextLen characters: with and without the bullet, with
\* and without the space after it, with whitespace at either end.
ShortTexts == SeqUpTo(WrapAlphabet, MaxTextLen)

\* A word of n letters.
Word(n) == [j \in 1..n |-> "a"]
\* Word lengths below, at and above the widths 17, 20 and 25 that wrap_text's
\* two calls of textwrap.fill leave for a line.
WordLengths == {3, 9, 17, 18, 21, 26}

RECURSIVE JoinWords(_)
JoinWords(ws) ==
    IF ws = <<>> THEN <<>>
    ELSE IF Len(ws) = 1 THEN ws[1]
    ELSE ws[1] \o <<" ">> \o JoinWords(Tail(ws))

\* Texts of up to MaxWords words separated by one space, with and without the
\* bullet marker in front.
WordTexts ==
    {prefix \o JoinWords([k \in 1..Len(ls) |-> Word(ls[k])]) :
        prefix \in {<<>>, <<Bullet, " ">>}, ls \in SeqUpTo(WordLengths, MaxWords)}

WrapInputs == ShortTexts \cup WordTexts

wtStart ==
    /\ wt_pc = "new"
    /\ wt_text \in WrapInputs
    /\ wt_lines = <<>>

\* wrap_text(text), and the split("\n") its caller applies to the result.
Wrap ==
    /\ wt_pc = "new"
    /\ wt_lines' = WrapText(wt_text)
    /\ wt_pc' = "wrapped"
    /\ UNCHANGED <<wt_text, vpVars, coVars, imVars>>

wtNext == Wrap

\* ================================================ ImageVideoGenerator, one image
\* Largest width and height, in pixels, of a source image.
MaxImageDim == 12

\* <<width, height>> of the frame: the default, a small one, and one with an odd
\* height that source images of up to MaxImageDim pixels both exceed and fall
\* short of.
ImageFrames == {<<1080, 1920>>, <<200, 360>>, <<7, 11>>}
\* The file at image_path: missing, or an image of positive dimensions.
ImageSources == {None} \cup {Some(<<ow, oh>>) : ow \in 1..MaxImageDim, oh \in 1..MaxImageDim}

imStart ==
    /\ im_pc = "new"
    /\ im_args \in ImageFrames
    /\ im_source \in ImageSources
    /\ im_width = 0
    /\ im_height = 0
    /\ im_full_height = 0
    /\ im_y_offset = 0
    /\ clip_size = <<0, 0>>
    /\ clip_pos = <<0, 0>>

\* ImageVideoGenerator.__init__: the generator works on the lower half.
ImConstruct ==
    /\ im_pc = "new"
    /\ im_width' = im_args[1]
    /\ im_height' = im_args[2] \div 2
    /\ im_full_height' = im_args[2]
    /\ im_y_offset' = im_args[2] \div 2
    /\ im_pc' = "constructed"
    /\ UNCHANGED <<im_args, im_source, clip_size, clip_pos, vpVars, coVars, wtVars>>

\* scaling_factor = max(width_ratio, height_ratio): scale to fill.
ScalingFactorFill(ow, oh, w, h) == IF w * oh >= h * ow THEN <<w, ow>> ELSE <<h, oh>>

\* scaling_factor = min(width_ratio, height_ratio) with width_ratio = w / ow and
\* height_ratio = h / oh, as the fraction <<numerator, denominator>>.
ScalingFactor(ow, oh, w, h) == IF w * oh <= h * ow THEN <<w, ow>> ELSE <<h, oh>>

\* int(x * scaling_factor) in floating point: the floor of the exact product, or
\* one less when the exact product is an integer that the rounded one falls
\* short of.
IntOfScaled(x, factor) ==
    LET q == (x * factor[1]) \div factor[2]
    IN  IF (x * factor[1]) % factor[2] = 0 THEN {q - 1, q} ELSE {q}

\* load_and_resize_image for the item of create_video_segment: a missing file
\* raises FileNotFoundError and the item is skipped; img.resize to a size with a
\* zero raises or yields an empty image, as the imaging library decides.
LoadAndResizeImage ==
    /\ im_pc = "constructed"
    /\ IF im_source = None
       THEN im_pc' = "skipped" /\ UNCHANGED clip_size
       ELSE LET ow == im_source[1][1]
                oh == im_source[1][2]
                scaling_factor == ScalingFactor(ow, oh, im_width, im_height)
            IN  \E new_width \in IntOfScaled(ow, scaling_factor),
                   new_height \in IntOfScaled(oh, scaling_factor),
                   resized \in BOOLEAN :
                    /\ resized \/ new_width = 0 \/ new_height = 0
                    /\ IF resized
                       THEN im_pc' = "resized" /\ clip_size' = <<new_width, new_height>>
                       ELSE im_pc' = "skipped" /\ UNCHANGED clip_size
    /\ UNCHANGED <<im_args, im_source, im_width, im_height, im_full_height,
                   im_y_offset, clip_pos, vpVars, coVars, wtVars>>

\* position_image_clip
PositionImageClip ==
    /\ im_pc = "resized"
    /\ clip_pos' = <<(im_width - clip_size[1]) \div 2,
                     im_y_offset + (im_height - clip_size[2]) \div 2>>
    /\ im_pc' = "placed"
    /\ UNCHANGED <<im_args, im_source, im_width, im_height, im_full_height,
                   im_y_offset, clip_size, vpVars, coVars, wtVars>>

imNext ==
    \/ ImConstruct
    \/ LoadAndResizeImage
    \/ PositionImageClip

\* ============================================================ VideoCoordinator
coInputVars == <<args, width, height, duration, slide_content, image_content>>
coHandleVars == <<co_locals, co_open, temp_text_path, temp_text_exists>>
tgZoneVars == <<font_size, content_zone>>
tgLoopVars == <<tg_slide, tg_line, start_y10, current_y10, text_layers>>

coStart ==
    /\ co_pc = "new"
    /\ width = 0
    /\ height = 0
    /\ duration = 0
    /\ slide_content = None
    /\ image_content = None
    /\ co_locals = {}
    /\ co_open = {}
    /\ temp_text_path = FALSE
    /\ temp_text_exists = FALSE
    /\ font_size = 0
    /\ content_zone = [top |-> 0, bottom |-> 0]
    /\ tg_slide = 0
    /\ tg_line = 0
    /\ start_y10 = 0
    /\ current_y10 = 0
    /\ text_layers = <<>>
    /\ tg_open = {}
    /\ tg_encoded = FALSE
    /\ image_clips = <<>>
    /\ co_encoded = FALSE
    /\ co_error = "none"
    /\ co_result = "none"

\* max(x["end_time"] for x in items) over a non-empty list.
RECURSIVE MaxOfEndTimes(_)
MaxOfEndTimes(items) ==
    IF Len(items) = 1 THEN items[1].end_time
    ELSE Max(items[1].end_time, MaxOfEndTimes(Tail(items)))

\* max(...) if content else 0: None and the empty list are both falsy.
MaxEndTime(content) ==
    IF content = None \/ content[1] = <<>> THEN 0 ELSE MaxOfEndTimes(content[1])

ResolveDurationTextOnly(d, slides, images) ==
    IF d = None THEN MaxEndTime(slides) ELSE d[1]

\* Lines 32-42: self.duration.
ResolveDuration(d, slides, images) ==
    IF d = None THEN Max(MaxEndTime(slides), MaxEndTime(images)) ELSE d[1]

\* VideoCoordinator.__init__
CoConstruct ==
    /\ co_pc = "new"
    /\ UNCHANGED <<vpVars, wtVars, imVars>>
    /\ width' = args.width_height[1]
    /\ height' = args.width_height[2]
    /\ duration' = ResolveDuration(args.duration, args.slide_content, args.image_content)
    /\ slide_content' = args.slide_content
    /\ image_content' = args.image_content
    /\ co_pc' = "constructed"
    /\ UNCHANGED <<args, coHandleVars, tgZoneVars, tgLoopVars, tg_open, tg_encoded,
                   image_clips, co_encoded, co_error, co_result>>

\* header_margin_top's default, which the coordinator does not override.
header_margin_top == 100

\* self.font_size = int(width * 0.05); the product is exact for the widths used.
FontSize(w) == (w * 5) \div 100
\* self.header_font_size = int(self.font_size * header_font_multiplier)
HeaderFontSize(f) == (f * 12) \div 10
\* self.content_zone (lines 42-50), header_height = int(header_font_size * 2)
ContentZone(w, h) ==
    [top |-> 2 * HeaderFontSize(FontSize(w)) + header_margin_top + 20,
     bottom |-> h \div 2]

\* Lines 57-92 of create_video: the two generators are constructed, the
\* background clip is created, the temporary file is created.
CoSetup ==
    /\ co_pc = "constructed"
    /\ UNCHANGED <<vpVars, wtVars, imVars>>
    /\ font_size' = FontSize(width)
    /\ content_zone' = ContentZone(width, height)
    /\ co_locals' = co_locals \cup {"background"}
    /\ co_open' = co_open \cup {<<"background", 0>>}
    /\ temp_text_path' = TRUE
    /\ temp_text_exists' = TRUE
    /\ co_pc' = "tg_start"
    /\ UNCHANGED <<coInputVars, tgLoopVars, tg_open, tg_encoded, image_clips,
                   co_encoded, co_error, co_result>>

\* ========================================================== TextVideoGenerator
\* line_spacing = self.font_size * 1.5, in tenths of a pixel.
LineSpacing10(f) == f * 15
\* line_spacing * 0.8, in tenths of a pixel.
ItemGap10(f) == f * 12

\* all_wrapped_lines of a slide (lines 116-119).
RECURSIVE AllWrappedLines(_)
AllWrappedLines(lines) ==
    IF lines = <<>> THEN <<>> ELSE WrapText(lines[1]) \o AllWrappedLines(Tail(lines))

CalculateContentLayoutClamped(n, line_spacing10, zone) ==
    10 * Max(zone.top,
             zone.top + ((10 * (zone.bottom - zone.top) - n * line_spacing10) \div 20))

\* calculate_content_layout (lines 87-95) for n wrapped lines, in tenths of a
\* pixel: top + (available_height - total_height) // 2, a floor division.
CalculateContentLayout(n, line_spacing10, zone) ==
    10 * (zone.top + ((10 * (zone.bottom - zone.top) - n * line_spacing10) \div 20))

\* Lines 102-114: background and header are created, the loop over
\* self.slide_content starts; iterating None raises TypeError.
TgStart ==
    /\ co_pc = "tg_start"
    /\ UNCHANGED <<vpVars, wtVars, imVars>>
    /\ tg_open' = {"background"}
    /\ IF slide_content = None
       THEN /\ co_error' = "TypeError"
            /\ co_pc' = "finally"
            /\ UNCHANGED tg_slide
       ELSE /\ tg_slide' = 1
            /\ co_pc' = "tg_slide"
            /\ UNCHANGED co_error
    /\ UNCHANGED <<coInputVars, coHandleVars, tgZoneVars, tg_line, start_y10,
                   current_y10, text_layers, tg_encoded, image_clips, co_encoded,
                   co_result>>

\* Lines 114-123: the next slide's wrapped lines are counted and its start_y set.
TgBeginSlide ==
    /\ co_pc = "tg_slide"
    /\ tg_slide <= Len(slide_content[1])
    /\ UNCHANGED <<vpVars, wtVars, imVars>>
    /\ LET slide == slide_content[1][tg_slide]
           y == CalculateContentLayout(Len(AllWrappedLines(slide.lines)),
                                       LineSpacing10(font_size), content_zone)
       IN  /\ start_y10' = y
           /\ current_y10' = y
    /\ tg_line' = 1
    /\ co_pc' = "tg_line"
    /\ UNCHANGED <<coInputVars, coHandleVars, tgZoneVars, tg_slide, text_layers,
                   tg_open, tg_encoded, image_clips, co_encoded, co_error, co_result>>

\* The text clips of one line (lines 132-154): one per wrapped line, line_spacing
\* apart, starting at y10.
LineClips(s, i, slide, wrapped, y10, spacing10) ==
    [k \in 1..Len(wrapped) |->
        [slide |-> s, line |-> i, text |-> wrapped[k],
         y10 |-> y10 + (k - 1) * spacing10,
         start |-> slide.start_times[i],
         duration |-> slide.end_time - slide.start_times[i]]]

\* Lines 125-157: one line of the slide. slide["start_times"][i] raises
\* IndexError when start_times is shorter than lines.
TgPlaceLine ==
    /\ co_pc = "tg_line"
    /\ tg_line <= Len(slide_content[1][tg_slide].lines)
    /\ UNCHANGED <<vpVars, wtVars, imVars>>
    /\ LET slide == slide_content[1][tg_slide]
           wrapped == WrapText(slide.lines[tg_line])
           spacing10 == LineSpacing10(font_size)
       IN  IF tg_line > Len(slide.start_times)
           THEN /\ co_error' = "IndexError"
                /\ co_pc' = "finally"
                /\ UNCHANGED <<text_layers, current_y10, tg_line>>
           ELSE /\ text_layers' = text_layers \o
                      LineClips(tg_slide, tg_line, slide, wrapped, current_y10, spacing10)
                /\ current_y10' = current_y10 + Len(wrapped) * spacing10
                                  + ItemGap10(font_size)
                /\ tg_line' = tg_line + 1
                /\ UNCHANGED <<co_error, co_pc>>
    /\ UNCHANGED <<coInputVars, coHandleVars, tgZoneVars, tg_slide, start_y10,
                   tg_open, tg_encoded, image_clips, co_encoded, co_result>>

\* The inner loop is exhausted: on to the next slide.
TgLinesDone ==
    /\ co_pc = "tg_line"
    /\ tg_line > Len(slide_content[1][tg_slide].lines)
    /\ UNCHANGED <<vpVars, wtVars, imVars>>
    /\ tg_slide' = tg_slide + 1
    /\ co_pc' = "tg_slide"
    /\ UNCHANGED <<coInputVars, coHandleVars, tgZoneVars, tg_line, start_y10,
                   current_y10, text_layers, tg_open, tg_encoded, image_clips,
                   co_encoded, co_error, co_result>>

\* Lines 159-175: the composite is encoded; final_video and background are closed
\* only when write_videofile returns.
TgEncode ==
    /\ co_pc = "tg_slide"
    /\ tg_slide > Len(slide_content[1])
    /\ UNCHANGED <<vpVars, wtVars, imVars>>
    /\ tg_encoded' = TRUE
    /\ \E ok \in BOOLEAN :
         IF ok
         THEN /\ tg_open' = {}
              /\ co_pc' = "load_text"
              /\ UNCHANGED co_error
         ELSE /\ tg_open' = tg_open \cup {"final_video"}
              /\ co_error' = "EncodeError"
              /\ co_pc' = "finally"
    /\ UNCHANGED <<coInputVars, coHandleVars, tgZoneVars, tgLoopVars, image_clips,
                   co_encoded, co_result>>

\* ========================================================= ImageVideoGenerator
\* load_and_resize_image raises for a path that does not exist (lines 30-31).
Loads(item) == item.image_path \in FilesOnDisk

\* The clip of item i (lines 64-73).
ImageClipOf(items, i) ==
    [item |-> i, start |-> items[i].start_time, end |-> items[i].end_time]

RECURSIVE SegmentStopAtFailure(_, _, _)
SegmentStopAtFailure(items, i, clips) ==
    IF i > Len(items) \/ ~Loads(items[i]) THEN clips
    ELSE SegmentStopAtFailure(items, i + 1, Append(clips, ImageClipOf(items, i)))

CreateVideoSegmentStopAtFailure(items) == SegmentStopAtFailure(items, 1, <<>>)

\* The loop of create_video_segment from item i on: an item that raises is
\* printed and skipped (lines 75-77).
RECURSIVE SegmentFrom(_, _, _)
SegmentFrom(items, i, clips) ==
    IF i > Len(items) THEN clips
    ELSE IF Loads(items[i])
         THEN SegmentFrom(items, i + 1, Append(clips, ImageClipOf(items, i)))
         ELSE SegmentFrom(items, i + 1, clips)

\* create_video_segment (lines 60-79) on a fresh generator.
CreateVideoSegment(items) == SegmentFrom(items, 1, <<>>)

\* ================================================= VideoCoordinator, continued
\* Line 96: the text video is loaded as a clip.
CoLoadText ==
    /\ co_pc = "load_text"
    /\ UNCHANGED <<vpVars, wtVars, imVars>>
    /\ \E ok \in BOOLEAN :
         IF ok
         THEN /\ co_locals' = co_locals \cup {"text_video"}
              /\ co_open' = co_open \cup {<<"text_video", 0>>}
              /\ co_pc' = "images"
              /\ UNCHANGED co_error
         ELSE /\ co_error' = "IOError"
              /\ co_pc' = "finally"
              /\ UNCHANGED <<co_locals, co_open>>
    /\ UNCHANGED <<coInputVars, temp_text_path, temp_text_exists, tgZoneVars,
                   tgLoopVars, tg_open, tg_encoded, image_clips, co_encoded,
                   co_result>>

\* Line 101: image_generator.create_video_segment(); iterating None raises
\* TypeError outside the per-item try.
CoImageSegment ==
    /\ co_pc = "images"
    /\ UNCHANGED <<vpVars, wtVars, imVars>>
    /\ IF image_content = None
       THEN /\ co_error' = "TypeError"
            /\ co_pc' = "finally"
            /\ UNCHANGED <<image_clips, co_open>>
       ELSE /\ image_clips' = CreateVideoSegment(image_content[1])
            /\ co_open' = co_open \cup
                 {<<"image", image_clips'[k].item>> : k \in 1..Len(image_clips')}
            /\ co_pc' = "compose"
            /\ UNCHANGED co_error
    /\ UNCHANGED <<coInputVars, co_locals, temp_text_path, temp_text_exists,
                   tgZoneVars, tgLoopVars, tg_open, tg_encoded, co_encoded, co_result>>

\* Lines 105-118: the composite is built and written.
CoComposeEncode ==
    /\ co_pc = "compose"
    /\ UNCHANGED <<vpVars, wtVars, imVars>>
    /\ co_locals' = co_locals \cup {"final_video"}
    /\ co_open' = co_open \cup {<<"final_video", 0>>}
    /\ co_encoded' = TRUE
    /\ \E ok \in BOOLEAN : co_error' = IF ok THEN co_error ELSE "EncodeError"
    /\ co_pc' = "finally"
    /\ UNCHANGED <<coInputVars, temp_text_path, temp_text_exists, tgZoneVars,
                   tgLoopVars, tg_open, tg_encoded, image_clips, co_result>>

\* The clips the finally block closes (lines 139-144): those of final_video,
\* text_video and background that are bound.
ClosedInFinally(bound, open) ==
    {<<n, 0>> : n \in bound \cap {"final_video", "text_video", "background"}}

\* Lines 130-132: os.unlink(temp_text_path) if the path is set and exists.
UnlinkTemp(path_set, exists) == IF path_set /\ exists THEN FALSE ELSE exists

\* except (re-raise) and finally (lines 122-147).
CoFinally ==
    /\ co_pc = "finally"
    /\ UNCHANGED <<vpVars, wtVars, imVars>>
    /\ temp_text_exists' = UnlinkTemp(temp_text_path, temp_text_exists)
    /\ co_open' = co_open \ ClosedInFinally(co_locals, co_open)
    /\ co_result' = IF co_error = "none" THEN "returned" ELSE "raised"
    /\ co_pc' = "done"
    /\ UNCHANGED <<coInputVars, co_locals, temp_text_path, tgZoneVars, tgLoopVars,
                   tg_open, tg_encoded, image_clips, co_encoded, co_error>>

coNext ==
    \/ CoConstruct
    \/ CoSetup
    \/ TgStart
    \/ TgBeginSlide
    \/ TgPlaceLine
    \/ TgLinesDone
    \/ TgEncode
    \/ CoLoadText
    \/ CoImageSegment
    \/ CoComposeEncode
    \/ CoFinally

\* ============================================================ specifications
InitCompositor == vpInit /\ coIdle /\ wtIdle /\ imIdle
SpecCompositor == InitCompositor /\ [][vpNext]_vars

\* The coordinator on manifests that differ in timing, presence and image files.
InitCoordinator == vpIdle /\ coStart /\ args \in TimingManifests /\ wtIdle /\ imIdle
SpecCoordinator == InitCoordinator /\ [][coNext]_vars

\* The coordinator on manifests that differ in frame size, lines and wrapping.
InitLayout == vpIdle /\ coStart /\ args \in LayoutManifests /\ wtIdle /\ imIdle
SpecLayout == InitLayout /\ [][coNext]_vars

\* wrap_text on short texts and on texts built from words.
InitWrap == vpIdle /\ coIdle /\ wtStart /\ imIdle
SpecWrap == InitWrap /\ [][wtNext]_vars

\* One image through ImageVideoGenerator: construct, load and resize, position.
InitImage == vpIdle /\ coIdle /\ wtIdle /\ imStart
SpecImage == InitImage /\ [][imNext]_vars

\* ==================================================================== claims

\* The run is over for the caller: the constructor raised, or combine_videos
\* returned.
ComposeFinished == vp_pc \in {"done", "ctor_failed"}

\* C1: after any compose run (construction followed by combine_videos), however
\* it ended, temp_output.mp4 does not exist on disk.
C1_TempRemovedAfterCompose == ComposeFinished => ~temp_exists

\* C1 witness: frames were written to the temporary file, attaching the audio
\* failed in the encoder, and the run is over.
C1_Witness ==
    /\ vp_pc = "done"
    /\ temp_frames > 0
    /\ "encode" \in vp_failures

\* C2: every source frame index set by the loop lies in [0, frame_count) of its
\* own source, and the indices are non-decreasing in the output index.
C2_FrameIndexMapping ==
    \A k \in 1..Len(positions) :
        /\ positions[k][1] \in 0..(fg_frames - 1)
        /\ positions[k][2] \in 0..(bg_frames - 1)
        /\ k > 1 => /\ positions[k - 1][1] <= positions[k][1]
                    /\ positions[k - 1][2] <= positions[k][2]

\* C2 witness: a longer foreground resampled onto a shorter background, all
\* output indices visited and the foreground index advancing by more than one.
C2_Witness ==
    /\ fg_frames = 4
    /\ bg_frames = 2
    /\ Len(positions) = 2
    /\ positions[2] = <<2, 1>>

\* C5: when a read returns no data at output index k the loop stops there
\* without raising: k frames were handed to the writer (and stored, if the
\* writer is open), none for the failed read, the handles are released before
\* the audio step, and the audio step runs before combine_videos returns.
C5_ReadFailureStopsLoop ==
    read_fail_at >= 0 =>
        /\ frame_count = read_fail_at
        /\ write_calls = read_fail_at
        /\ temp_frames = (IF "writer_open" \in vp_failures THEN 0 ELSE read_fail_at)
        /\ vp_pc \in {"release", "add_audio", "done"}
        /\ "frame_step" \notin vp_failures
        /\ vp_pc \in {"add_audio", "done"} =>
              fg_cap = "released" /\ bg_cap = "released" /\ out = "released"
        /\ vp_pc = "done" => audio_attached /\ vp_result = "returned"

\* C5 witness: two frames composited, the third read failed, the audio step ran
\* on the two-frame intermediate.
C5_Witness ==
    /\ read_fail_at = 2
    /\ temp_frames = 2
    /\ vp_pc = "done"
    /\ audio_attached

\* The failures the claim calls fatal for the operation.
FatalFailures == {"fg_open", "bg_open", "writer_open", "frame_step", "encode"}

\* C8: a run in which an input or the writer could not be opened, or a write or
\* encode step failed, ends in a failure delivered to the caller, presents no
\* output as valid, and has removed the temporary file and released the writer.
C8_FatalFailureDelivered ==
    (ComposeFinished /\ vp_failures \cap FatalFailures # {}) =>
        /\ vp_result = "raised"
        /\ output # "complete"
        /\ ~temp_exists
        /\ out # "open"

\* The end times of a manifest collection (none for an absent one).
EndTimes(content) ==
    IF content = None THEN {} ELSE {content[1][k].end_time : k \in DOMAIN content[1]}

\* C3: the resolved duration is the explicit duration when one is given;
\* otherwise it is the largest end_time over all slides and image items, an empty
\* or absent collection contributing 0.
C3_DurationResolved ==
    co_pc # "new" =>
        IF args.duration # None
        THEN duration = args.duration[1]
        ELSE LET ends == EndTimes(args.slide_content) \cup EndTimes(args.image_content)
                          \cup {0}
             IN  /\ duration \in ends
                 /\ \A e \in ends : e <= duration

\* C3 witness: no explicit duration, slides ending at 1 and images ending last
\* at 3: the duration resolved to 3.
C3_Witness ==
    /\ co_pc = "constructed"
    /\ args.duration = None
    /\ EndTimes(args.slide_content) = {1}
    /\ EndTimes(args.image_content) = {1, 3}
    /\ duration = 3

\* C4: create_video_segment returns one layer for each item that loaded, in
\* manifest order, wherever the failing items sit, and the call goes on to the
\* composite.
C4_FailedImagesSkipped ==
    co_pc = "compose" =>
        LET items == image_content[1]
            loaded == {i \in 1..Len(items) : items[i].image_path \in FilesOnDisk}
        IN  /\ co_error = "none"
            /\ Len(image_clips) = Cardinality(loaded)
            /\ {image_clips[k].item : k \in 1..Len(image_clips)} = loaded
            /\ \A k \in 1..(Len(image_clips) - 1) :
                   image_clips[k].item < image_clips[k + 1].item

\* C4 witness: the first of two items is missing on disk and the second one is
\* the only layer.
C4_Witness ==
    /\ co_pc = "compose"
    /\ Len(image_content[1]) = 2
    /\ image_content[1][1].image_path \notin FilesOnDisk
    /\ Len(image_clips) = 1
    /\ image_clips[1].item = 2

\* A slide the claim calls malformed: start_times and lines differ in length, a
\* line ends at or before its start, or a line's window leaves [0, duration].
SlideMalformed(sl, d) ==
    \/ Len(sl.start_times) # Len(sl.lines)
    \/ \E i \in 1..Len(sl.start_times) :
           sl.end_time <= sl.start_times[i] \/ sl.start_times[i] < 0
    \/ sl.lines # <<>> /\ sl.end_time > d

ImageMalformed(it, d) ==
    it.end_time <= it.start_time \/ it.start_time < 0 \/ it.end_time > d

ManifestMalformed ==
    \/ slide_content # None /\
         \E k \in 1..Len(slide_content[1]) : SlideMalformed(slide_content[1][k], duration)
    \/ image_content # None /\
         \E k \in 1..Len(image_content[1]) : ImageMalformed(image_content[1][k], duration)

\* C6: a malformed manifest is rejected before any encoding: neither
\* write_videofile is invoked, and no layer exists for a malformed slide or image.
C6_MalformedManifestRejected ==
    (co_pc \notin {"new", "idle"} /\ ManifestMalformed) =>
        /\ ~tg_encoded
        /\ ~co_encoded
        /\ \A k \in 1..Len(text_layers) :
               ~SlideMalformed(slide_content[1][text_layers[k].slide], duration)
        /\ \A k \in 1..Len(image_clips) :
               ~ImageMalformed(image_content[1][image_clips[k].item], duration)

\* C7: when create_video has returned or raised, every clip it opened
\* (background, text video, image clips, final composite) is closed and the
\* temporary text video file is removed.
C7_AllReleasedOnExit ==
    co_pc = "done" => co_open = {} /\ ~temp_text_exists

\* The zone's height minus the height of the current slide's block, in tenths of
\* a pixel.
SlackOfCurrentSlide10 ==
    10 * (content_zone.bottom - content_zone.top)
    - Len(AllWrappedLines(slide_content[1][tg_slide].lines)) * 15 * font_size

C10_NoLayerBelowBound ==
    \A k \in 1..Len(text_layers) : text_layers[k].y10 < 10 * (height \div 2)

\* ----------------------------------------------------------------------- C11
\* The text begins with the bullet marker: the bullet and a space.
StartsWithMarker(text) == Len(text) >= 2 /\ text[1] = Bullet /\ text[2] = " "
\* The limit that applies to a text: char_limit for a bullet string, 5 more
\* otherwise.
ApplicableLimit(text) == IF StartsWithMarker(text) THEN char_limit ELSE char_limit + 5

\* C11: for every text no longer than its applicable limit, wrap_text returns
\* exactly one line and that line is the trimmed text; a text that begins with
\* the bullet but not with the bullet and a space is among the non-bullet texts
\* and so loses no character.
C11_ShortTextOneLine ==
    (wt_pc = "wrapped" /\ Len(wt_text) <= ApplicableLimit(wt_text)) =>
        /\ Len(wt_lines) = 1
        /\ wt_lines[1] = Strip(wt_text)

\* ----------------------------------------------------------------------- C12
\* The words of a string, in order.
Words(s) == SelectSeq(SplitChunks(s), LAMBDA c : ~IsBlank(c))

RECURSIVE WordsOfLines(_)
WordsOfLines(lines) ==
    IF lines = <<>> THEN <<>> ELSE Words(lines[1]) \o WordsOfLines(Tail(lines))

\* C12: for every text that begins with the bullet marker, the first line of the
\* result begins with the marker, every further line begins with exactly three
\* spaces, and the words of the lines, in order, are the words of the text after
\* the marker: lines break at whitespace only and no word is split.
C12_BulletWrapKeepsWords ==
    (wt_pc = "wrapped" /\ StartsWithMarker(wt_text)) =>
        /\ Len(wt_lines) >= 1
        /\ StartsWithMarker(wt_lines[1])
        /\ \A i \in 2..Len(wt_lines) :
              /\ Len(wt_lines[i]) >= 4
              /\ SubSeq(wt_lines[i], 1, 3) = <<" ", " ", " ">>
              /\ wt_lines[i][4] # " "
        /\ WordsOfLines(<<SubSeq(wt_lines[1], 3, Len(wt_lines[1]))>> \o Tail(wt_lines))
             = Words(SubSeq(wt_text, 3, Len(wt_text)))

\* ----------------------------------------------------------------------- C13
\* C13: every image layer lies inside the image zone, the lower half of the
\* frame: its scaled width is at most the frame width and its scaled height at
\* most height // 2, its x offset is (frame width - w) // 2 and not negative,
\* and its vertical extent [y, y + h] lies in [height // 2, height].
C13_ImageInLowerHalf ==
    LET frame_width == im_args[1]
        frame_height == im_args[2]
        w == clip_size[1]
        h == clip_size[2]
        x == clip_pos[1]
        y == clip_pos[2]
    IN  /\ im_pc \in {"resized", "placed"} =>
              /\ w <= frame_width
              /\ h <= frame_height \div 2
        /\ im_pc = "placed" =>
              /\ x = (frame_width - w) \div 2
              /\ x >= 0
              /\ x + w <= frame_width
              /\ y >= frame_height \div 2
              /\ y + h <= frame_height

\* A source image larger than the frame in both directions was scaled down and
\* placed: 12 x 9 on the 7 x 11 frame becomes 6 x 5 at (0, 5).
C13_Witness ==
    /\ im_pc = "placed"
    /\ im_args = <<7, 11>>
    /\ im_source = Some(<<12, 9>>)
    /\ clip_size = <<6, 5>>
    /\ clip_pos = <<0, 5>>

\* ----------------------------------------------------------------------- C14
\* One of the three handles was released.
SomeHandleReleased == "released" \in {fg_cap, bg_cap, out}
AllHandlesReleased == fg_cap = "released" /\ bg_cap = "released" /\ out = "released"

\* C14 as stated: the loop makes at most min(fg_frames, bg_frames) iterations,
\* the number of frames written is the number of iterations in which both reads
\* succeeded (frame_count) and at most that minimum, the three handles are
\* released before add_audio opens the intermediate file, and no iteration
\* reads or writes once a handle is released.
C14_WrittenEqualsReadOk ==
    /\ Len(positions) <= Min(fg_frames, bg_frames)
    /\ write_calls = frame_count
    /\ write_calls <= Min(fg_frames, bg_frames)
    /\ audio_attached => AllHandlesReleased
    /\ SomeHandleReleased => vp_pc \notin {"loop", "release", "except"}

\* The frame step of an iteration raised after both of its reads succeeded.
FrameStepRaised == IF "frame_step" \in vp_failures THEN 1 ELSE 0

\* C14, amended: the loop makes at most min(fg_frames, bg_frames) iterations;
\* the number of frames handed to the writer is the number of iterations in
\* which both reads succeeded, less the one iteration whose frame step raised,
\* and at most that minimum; the three handles are released before add_audio
\* opens the intermediate file; and once a handle is released no step sets a
\* position, reads or writes again.
C14_LoopBoundedAndReleased ==
    /\ [](/\ Len(positions) <= Min(fg_frames, bg_frames)
          /\ write_calls = frame_count - FrameStepRaised
          /\ write_calls <= Min(fg_frames, bg_frames)
          /\ audio_attached => AllHandlesReleased)
    /\ [][SomeHandleReleased =>
            /\ positions' = positions
            /\ write_calls' = write_calls
            /\ temp_frames' = temp_frames]_vars

\* Two iterations read both frames, the second one's frame step raised, and the
\* run ended with one frame handed to the writer and the handles released.
C14_Witness ==
    /\ vp_pc = "done"
    /\ "frame_step" \in vp_failures
    /\ frame_count = 2
    /\ write_calls = 1
    /\ Len(positions) = 2
    /\ AllHandlesReleased

\* ----------------------------------------------------------------------- C15
\* The coordinator was given no text slide: none at all, or an empty list.
ZeroSlides == args.slide_content \in {None, Some(<<>>)}
\* The coordinator was given at least one image item.
SomeImages == args.image_content # None /\ Len(args.image_content[1]) >= 1
\* Failures of the encoder or of the file system, which no manifest causes.
EnvironmentErrors == {"EncodeError", "IOError"}

\* C15: a coordinator with zero text slides (an empty list, or the default None)
\* and at least one image item resolves its duration to the largest image
\* end_time, and its create_video reaches the encode step with a layer for every
\* image that loads; and a coordinator without image content does not fail for
\* that reason.
C15_ZeroSlidesStillEncode ==
    /\ (co_pc # "new" /\ ZeroSlides /\ SomeImages /\ args.duration = None) =>
           /\ duration \in EndTimes(args.image_content)
           /\ \A e \in EndTimes(args.image_content) : e <= duration
    /\ (co_pc = "done" /\ ZeroSlides /\ SomeImages
          /\ co_error \notin EnvironmentErrors) =>
           /\ co_encoded
           /\ {image_clips[k].item : k \in 1..Len(image_clips)} =
                {j \in 1..Len(args.image_content[1]) :
                    args.image_content[1][j].image_path \in FilesOnDisk}
    /\ (co_pc = "done" /\ args.image_content = None /\ args.slide_content # None) =>
           co_error # "TypeError"

=============================================================================
